---- MODULE Spec2Model ----
(***************************************************************************)
(* A model of cpu_monitor.py: the sampling loop of main(), the latency     *)
(* prober run_ping() and the presentation helpers.                         *)
(*                                                                         *)
(* Representation.                                                         *)
(*  - Time is counted in whole seconds of time.monotonic().                *)
(*  - A Python float that is a quotient of integers is kept as the exact   *)
(*    fraction <<num, den>> with den > 0, in lowest terms.                 *)
(*  - A Python string is a sequence of tokens (TLA+ strings); the tokens   *)
(*    " " and "\n" are whitespace, "=" and "/" are the separators the      *)
(*    parser of run_ping splits on, "rtt" and "round-trip" are its markers.*)
(*  - A float too large for that is kept as <<num, den, e>>, the value     *)
(*    num/den * 1024^e.                                                     *)
(*  - Python's None is the empty tuple None, a value v is Some(v) = <<v>>. *)
(*  - Latencies are kept in tenths of a millisecond.                       *)
(***************************************************************************)
EXTENDS Integers, Sequences, FiniteSets, TLC

VARIABLES
    pc,               \* position of the single control thread in main()
    clock,            \* current value of time.monotonic()
    \* LoopState
    prev_idle, prev_total,      \* previous CPU snapshot
    prev_rx, prev_tx,           \* previous network snapshot
    prev_time,                  \* previous sample timestamp
    next_ping_time,             \* next-probe deadline
    last_ping_avg, last_ping_error,   \* last probe outcome
    \* locals of the loop body
    now,              \* sample timestamp of the current tick
    idle, total,      \* CPU snapshot just read
    idle_delta, total_delta,
    cpu_usage,        \* CPU usage percent (fraction)
    temp_c,           \* temperature in degrees Celsius (fraction)
    rx_bytes, tx_bytes,         \* network snapshot just read
    elapsed,
    rx_delta, tx_delta,
    rx_rate, tx_rate, \* byte rates (fractions)
    \* what the process did
    emitted,          \* what the step just taken wrote: a log line, a frame,
                      \* the trailing newline, a traceback, or None
    exit_status,      \* "running", "success" or "error"
    \* history
    n_ticks,          \* ticks started (sleep returned)
    n_log,            \* lines appended to the log
    n_render,         \* frames rendered
    n_ping,           \* probes completed (run_ping returned)
    sampled,          \* the metrics read so far in the current tick
    tick_ping,        \* what run_ping returned in the current tick, if it ran
    ping_how,         \* how the last ping invocation ended
    last_probe,       \* tick number and sample timestamp of the last probe
    net_reset,        \* the network snapshot just read was below the stored one
    read_failed,      \* a metric reader has raised
    stored,           \* the tick in which each part of the single-slot history
                      \* was stored last (0: initialization)
    shown,            \* the probe status of the last log line and of the last frame
    \* a function called on its own
    call              \* its name, its arguments and what it returned, or None

loop_state == <<prev_idle, prev_total, prev_rx, prev_tx, prev_time, next_ping_time,
                last_ping_avg, last_ping_error>>
cpu_locals == <<idle, total, idle_delta, total_delta, cpu_usage>>
net_locals == <<rx_bytes, tx_bytes, elapsed, rx_delta, tx_delta, rx_rate, tx_rate>>
locals == <<now, cpu_locals, temp_c, net_locals>>
sinks == <<n_log, n_render>>
history == <<n_ticks, n_ping, sampled, tick_ping, ping_how, last_probe, net_reset>>

marks == <<stored, shown>>

vars == <<pc, clock, loop_state, locals, emitted, exit_status, sinks, history,
          read_failed, marks, call>>

-----------------------------------------------------------------------------
(* Bounds of the model *)

MaxTime == 21          \* no sleep starts once the clock has reached this

\* The derived metrics on their own: richer snapshots over a few ticks.
CalcCpuTicks == 2      \* CPU tick counters: 0..CalcCpuTicks
CalcNetBytes == 2      \* byte counters: 0..CalcNetBytes
CalcMaxTime == 1       \* the clock the first tick starts from; the stored
                       \* timestamp is anywhere in 0..CalcMaxTime+2
CalcTicks == 2         \* ticks taken

\* The functions on their own.
MaxLines == 2          \* lines of ping output
MaxExp == 5            \* byte rates up to 1024^MaxExp
MaxUsage == 120        \* CPU usage from -MaxUsage to MaxUsage percent, by tenths

(* Program constants *)

SleepSecs == 1         \* time.sleep(1)
PingMinDelay == 10     \* random.uniform(10.0, 40.0)
PingMaxDelay == 40
PingTimeout == 15      \* subprocess.run(..., timeout=15)

-----------------------------------------------------------------------------
(* Python values *)

None == <<>>
Some(v) == <<v>>
IsNone(x) == x = None
Val(x) == x[1]

\* Truth value of an optional string: None and "" are both false.
Truthy(x) == x # None /\ Val(x) # <<>>

Abs(x) == IF x < 0 THEN -x ELSE x
Max(a, b) == IF a >= b THEN a ELSE b

RECURSIVE GCD(_, _)
GCD(a, b) == IF b = 0 THEN a ELSE GCD(b, a % b)

\* The fraction n/d (d # 0) with a positive denominator, in lowest terms.
Frac(n, d) ==
    LET g == GCD(Abs(n), Abs(d))
        s == IF d < 0 THEN -1 ELSE 1
    IN  <<(s * n) \div g, (s * d) \div g>>

Zero == <<0, 1>>

\* Python's n / d: ZeroDivisionError (Fault) when d is 0.
Fault == <<0, 0>>
Div(n, d) == IF d = 0 THEN Fault ELSE Frac(n, d)
FracLess(r, k) == r[1] < k * r[2]
FracGeq(r, k) == r[1] >= k * r[2]

\* Round the non-negative fraction n/d to an integer, ties to even (the
\* rounding of Python's fixed-point float formatting).
RoundHalfEven(n, d) ==
    LET q == n \div d
        r == n % d
    IN  IF 2 * r > d THEN q + 1
        ELSE IF 2 * r = d THEN q + (q % 2)
        ELSE q

\* f"{x:.2f}" and f"{x:.1f}": the value in units of 1/scale.
FormatFixed(r, scale) ==
    IF r[1] < 0 THEN -RoundHalfEven((-r[1]) * scale, r[2])
    ELSE RoundHalfEven(r[1] * scale, r[2])

-----------------------------------------------------------------------------
(* Strings as token sequences *)

IsSpace(t) == t \in {" ", "\n"}

RECURSIVE LStrip(_)
LStrip(s) == IF s # <<>> /\ IsSpace(Head(s)) THEN LStrip(Tail(s)) ELSE s

RECURSIVE RStrip(_)
RStrip(s) ==
    IF s # <<>> /\ IsSpace(s[Len(s)]) THEN RStrip(SubSeq(s, 1, Len(s) - 1)) ELSE s

\* str.strip()
Strip(s) == RStrip(LStrip(s))

\* str.split(sep): always at least one piece.
RECURSIVE SplitOn(_, _)
SplitOn(s, sep) ==
    IF \A i \in 1..Len(s) : s[i] # sep THEN <<s>>
    ELSE LET i == CHOOSE k \in 1..Len(s) :
                      s[k] = sep /\ \A j \in 1..(k - 1) : s[j] # sep
         IN  <<SubSeq(s, 1, i - 1)>> \o SplitOn(SubSeq(s, i + 1, Len(s)), sep)

\* str.splitlines(): no piece for the text after a final line break.
SplitLines(s) ==
    LET p == SplitOn(s, "\n")
    IN  IF p[Len(p)] = <<>> THEN SubSeq(p, 1, Len(p) - 1) ELSE p

\* str.split(): the words between runs of whitespace.
SplitWs(s) ==
    LET t == [i \in 1..Len(s) |-> IF IsSpace(s[i]) THEN " " ELSE s[i]]
    IN  SelectSeq(SplitOn(t, " "), LAMBDA w : w # <<>>)

\* The numeric tokens and the value float() gives each (tenths of a ms).
NumValue == [t \in {"10.1", "12.5", "15.0", "1.2"} |->
                CASE t = "10.1" -> 101 [] t = "12.5" -> 125
                  [] t = "15.0" -> 150 [] t = "1.2" -> 12]

\* float(s) succeeds: s is one numeric token (two of them joined hold two
\* decimal points, and the empty string is no number either).
IsFloat(s) == Len(s) = 1 /\ s[1] \in DOMAIN NumValue

-----------------------------------------------------------------------------
(* Presentation layer *)

\* Mutant of color_for_cpu: the lower bounds are exclusive.
ColorForCpuExclusive(usage) ==
    IF ~FracLess(usage, 90) /\ usage # <<90, 1>> THEN "PURPLE"
    ELSE IF ~FracLess(usage, 70) /\ usage # <<70, 1>> THEN "RED"
    ELSE IF ~FracLess(usage, 50) /\ usage # <<50, 1>> THEN "ORANGE"
    ELSE IF ~FracLess(usage, 30) /\ usage # <<30, 1>> THEN "YELLOW"
    ELSE "RESET"

color_for_cpu(usage) ==
    IF FracGeq(usage, 90) THEN "PURPLE"
    ELSE IF FracGeq(usage, 70) THEN "RED"
    ELSE IF FracGeq(usage, 50) THEN "ORANGE"
    ELSE IF FracGeq(usage, 30) THEN "YELLOW"
    ELSE "RESET"

color_for_temp(t) ==
    IF FracGeq(t, 75) THEN "RED"
    ELSE IF FracGeq(t, 68) THEN "ORANGE"
    ELSE IF FracGeq(t, 60) THEN "YELLOW"
    ELSE "RESET"

Units == <<"B/s", "KB/s", "MB/s", "GB/s", "TB/s">>

\* The number of characters of f"{value:.2f}" for hundredths h >= 0.
RECURSIVE Digits(_)
Digits(n) == IF n < 10 THEN 1 ELSE 1 + Digits(n \div 10)

\* The parts of a float <<num, den>> or <<num, den, e>>.
Mantissa(x) == <<x[1], x[2]>>
Exp1024(x) == IF Len(x) = 3 THEN x[3] ELSE 0

\* m * 1024^e as a fraction.
RECURSIVE Scale(_, _)
Scale(m, e) == IF e = 0 THEN m ELSE Scale(Frac(m[1] * 1024, m[2]), e - 1)

\* value < 1024.0
RECURSIVE Less1024(_, _)
Less1024(m, e) ==
    IF e = 0 THEN FracLess(m, 1024)
    ELSE FracLess(m, 1) /\ Less1024(Frac(m[1] * 1024, m[2]), e - 1)

\* value / 1024.0
Over1024(x) ==
    IF Exp1024(x) > 0 THEN <<x[1], x[2], x[3] - 1>>
    ELSE Frac(x[1], x[2] * 1024)

\* f"{value:7.2f} {unit}"
FormatRate(value, unit) ==
    LET h == FormatFixed(Scale(Mantissa(value), Exp1024(value)), 100)
    IN  [pad |-> Max(7 - (Digits(h \div 100) + 3), 0),
         hundredths |-> h, unit |-> unit]

\* Mutant of FormatFrom: the last unit is not made to return.
RECURSIVE FormatFromNoLast(_, _)
FormatFromNoLast(value, k) ==
    IF k > Len(Units) THEN None
    ELSE IF Less1024(Mantissa(value), Exp1024(value)) THEN FormatRate(value, Units[k])
    ELSE FormatFromNoLast(Over1024(value), k + 1)

\* The loop of format_bytes_per_sec from unit number k on; None when the
\* loop ends without a return.
RECURSIVE FormatFrom(_, _)
FormatFrom(value, k) ==
    IF k > Len(Units) THEN None
    ELSE IF Less1024(Mantissa(value), Exp1024(value)) \/ Units[k] = Units[Len(Units)]
    THEN FormatRate(value, Units[k])
    ELSE FormatFrom(Over1024(value), k + 1)

format_bytes_per_sec(num_bytes_per_sec) ==
    FormatFrom(IF num_bytes_per_sec[1] > 0 THEN num_bytes_per_sec ELSE Zero, 1)

\* str.strip() of a formatted rate: the padding of the fixed width goes.
StripRate(f) == [f EXCEPT !.pad = 0]

-----------------------------------------------------------------------------
(* Latency prober *)

\* One ending of the ping invocation: subprocess.run raised (how = "raise",
\* exc = str(exc)) or returned a CompletedProcess (how = "exit").
Invocation(how, exc, returncode, stderr, stdout) ==
    [how |-> how, exc |-> exc, returncode |-> returncode,
     stderr |-> stderr, stdout |-> stdout]

\* Mutant of StatsLine: the last line holding a marker is taken.
StatsLineLast(stdout) ==
    LET lines == SplitLines(stdout)
        hit(l) == \E i \in 1..Len(l) : l[i] \in {"rtt", "round-trip"}
        idx == {i \in 1..Len(lines) : hit(lines[i])}
    IN  IF idx = {} THEN None
        ELSE Some(lines[CHOOSE i \in idx : \A j \in idx : i >= j])

\* The first line of stdout holding a marker, or None.
StatsLine(stdout) ==
    LET lines == SplitLines(stdout)
        hit(l) == \E i \in 1..Len(l) : l[i] \in {"rtt", "round-trip"}
        idx == {i \in 1..Len(lines) : hit(lines[i])}
    IN  IF idx = {} THEN None
        ELSE Some(lines[CHOOSE i \in idx : \A j \in idx : i <= j])

\* stats_line.split("=")[1].strip().split()[0].split("/")[1], or None where
\* Python raises IndexError.
AvgField(line) ==
    LET eq == SplitOn(line, "=")
    IN  IF Len(eq) < 2 THEN None
        ELSE LET words == SplitWs(Strip(eq[2]))
             IN  IF Len(words) < 1 THEN None
                 ELSE LET parts == SplitOn(words[1], "/")
                      IN  IF Len(parts) < 2 THEN None ELSE Some(parts[2])

\* An exception leaving run_ping, were there one.
Raised(exc) == <<None, None, exc>>
IsRaised(result) == Len(result) = 3

\* Mutant of OnParseError: the parse is not guarded by try/except.
OnParseErrorUncaught(exc) == Raised(exc)

\* Lines 131-132: IndexError and ValueError of the parse are caught.
OnParseError(exc) == <<None, Some(<<"invalid ping average">>)>>

\* run_ping(): the pair (average, error message).
run_ping(inv) ==
    IF inv.how = "raise" THEN <<None, Some(inv.exc)>>
    ELSE IF inv.returncode # 0
    THEN LET msg == Strip(inv.stderr)
         IN  <<None, Some(IF msg # <<>> THEN msg
                          ELSE <<"ping exited with ", ToString(inv.returncode)>>)>>
    ELSE LET stats_line == StatsLine(inv.stdout)
         IN  IF ~Truthy(stats_line)
             THEN <<None, Some(<<"unable to parse ping output">>)>>
             ELSE LET f == AvgField(Val(stats_line))
                  IN  IF IsNone(f) THEN OnParseError("IndexError")
                      ELSE IF ~IsFloat(Val(f)) THEN OnParseError("ValueError")
                      ELSE <<Some(NumValue[Val(f)[1]]), None>>

\* The ping invocations tried, each with the seconds it takes: failures to
\* launch (one whose exception has an empty message, as MemoryError() has),
\* the timeout, non-zero exits with and without stderr text, and zero exits
\* with several outputs.
TimeoutText == <<"Command '['ping', '-c', '3', '-n', '1.1.1.1']' timed out after 15 seconds">>
SummaryOk == <<"rtt", " ", "min", "/", "avg", "/", "max", "/", "mdev", " ", "=", " ",
               "10.1", "/", "12.5", "/", "15.0", "/", "1.2", " ", "ms", "\n">>
ReplyLine == <<"64", " ", "bytes", " ", "from", " ", "1.1.1.1", "\n">>
PingSecs == {0, PingMinDelay - SleepSecs - 1, PingMinDelay - SleepSecs}
PingRuns ==
    {[inv |-> Invocation("raise", e, 0, <<>>, <<>>), secs |-> 0] :
        e \in {<<>>, <<"[Errno 2] No such file or directory: 'ping'">>}}
    \cup {[inv |-> Invocation("raise", TimeoutText, 0, <<>>, <<>>), secs |-> PingTimeout]}
    \cup {[inv |-> Invocation("exit", <<>>, rc, e, o), secs |-> d] :
            rc \in {1, 2},
            e \in {<<>>, <<" ", "\n">>, <<"ping: connect: Network is unreachable", "\n">>},
            o \in {<<>>, SummaryOk}, d \in PingSecs}
    \cup {[inv |-> Invocation("exit", <<>>, 0, <<>>, o), secs |-> d] :
            o \in {<<>>, ReplyLine, ReplyLine \o SummaryOk,
                   <<"rtt", " ", "min", "/", "avg", "\n">>,
                   <<"round-trip", " ", "=", " ", "10.1", "\n">>,
                   <<"rtt", " ", "=", " ", "10.1", "/", "avg", "\n">>,
                   <<"rtt", " ", "=", " ", "\n">>},
            d \in PingSecs}

\* How an invocation ended, for the record.
PingEnd(run) ==
    IF run.inv.how = "raise"
    THEN IF run.inv.exc = TimeoutText THEN "timeout" ELSE "launch"
    ELSE IF run.inv.returncode # 0 THEN "nonzero" ELSE "zero"

\* Mutant of PingDelays: the range starts at the sleep interval.
PingDelaysShort == {SleepSecs, PingMaxDelay}

\* random.uniform(10.0, 40.0), in whole seconds: the ends of the range.
PingDelays == {PingMinDelay, PingMaxDelay}

-----------------------------------------------------------------------------
(* Metric readers: what the sources can hold *)

\* read_cpu_times(): (idle, total), idle + iowait being part of the total.
\* The snapshots the loop of Spec is run on.
CpuReads == {<<0, 0>>, <<0, 1>>, <<1, 1>>}

\* read_network_bytes(): (rx, tx) summed over the interfaces present.
NetReads == {<<0, 0>>, <<0, 1>>, <<1, 0>>, <<1, 1>>}

\* get_cpu_temp(): the millidegrees read, divided by 1000.
TempReads == {45000}
get_cpu_temp(millideg) == Frac(millideg, 1000)

-----------------------------------------------------------------------------
(* Derived metrics *)

\* Mutant of CpuUsage: the division is not guarded.
CpuUsageUnguarded(id, td) == Div((td - id) * 100, td)

\* Mutant of CpuUsage: the result is clamped to [0, 100].
CpuUsageClamped(id, td) ==
    IF td = 0 THEN Zero
    ELSE LET u == Frac((td - id) * 100, td)
         IN  IF u[1] < 0 THEN Zero ELSE IF FracGeq(u, 100) THEN <<100, 1>> ELSE u

\* Line 160.
CpuUsage(id, td) ==
    IF td # 0 THEN Div((td - id) * 100, td) ELSE Zero

\* Mutant of ByteDelta: the difference is not clamped.
ByteDeltaRaw(cur, prev) == cur - prev

\* Lines 170-171.
ByteDelta(cur, prev) == Max(cur - prev, 0)

\* Lines 172-173.
ByteRate(delta, secs) == IF secs > 0 THEN Div(delta, secs) ELSE Zero

\* Line 164.
TempF(c) == Frac(c[1] * 9 + 32 * 5 * c[2], 5 * c[2])

-----------------------------------------------------------------------------
(* The text of the probe status *)

\* Mutant of PingLogPart: the latency is tested for truth, not against None.
PingLogPartTruthy(avg, err) ==
    IF Truthy(err) THEN <<"Ping error: ">> \o Val(err)
    ELSE IF ~IsNone(avg) /\ Val(avg) # 0 THEN <<"Ping avg: ", ToString(Val(avg)), " ms">>
    ELSE <<"Ping: pending">>

\* Lines 187-192.
PingLogPart(avg, err) ==
    IF Truthy(err) THEN <<"Ping error: ">> \o Val(err)
    ELSE IF ~IsNone(avg) THEN <<"Ping avg: ", ToString(Val(avg)), " ms">>
    ELSE <<"Ping: pending">>

\* Lines 202-207.
PingDisplay(avg, err) ==
    IF Truthy(err) THEN <<"ERROR - ">> \o Val(err)
    ELSE IF IsNone(avg) THEN <<"Pending...">>
    ELSE <<ToString(Val(avg)), " ms">>

\* Lines 182-193: the line handed to logging.info.
LogLine ==
    [temp |-> <<FormatFixed(temp_c, 100), FormatFixed(TempF(temp_c), 100)>>,
     cpu  |-> FormatFixed(cpu_usage, 10),
     up   |-> StripRate(format_bytes_per_sec(tx_rate)),
     down |-> StripRate(format_bytes_per_sec(rx_rate)),
     ping |-> PingLogPart(last_ping_avg, last_ping_error)]

\* Lines 196-224: the four lines of the frame.
Frame ==
    [temp |-> <<color_for_temp(temp_c), FormatFixed(temp_c, 100),
                FormatFixed(TempF(temp_c), 100)>>,
     cpu  |-> <<color_for_cpu(cpu_usage), FormatFixed(cpu_usage, 10)>>,
     up   |-> format_bytes_per_sec(tx_rate),
     down |-> format_bytes_per_sec(rx_rate),
     ping |-> PingDisplay(last_ping_avg, last_ping_error)]

-----------------------------------------------------------------------------
(* main() *)

InitPcs == {"start", "init_cpu", "init_net", "init_time"}
SamplePcs == {"read_cpu", "read_temp", "read_net"}
LoopPcs == {"sleep"} \cup SamplePcs \cup {"maybe_ping", "log", "render"}
Metrics == {"cpu", "temp", "net"}

\* Names not bound yet hold 0 (numbers), Zero (fractions) or None.
Unbound ==
    /\ prev_idle = 0 /\ prev_total = 0
    /\ prev_rx = 0 /\ prev_tx = 0
    /\ prev_time = 0
    /\ next_ping_time = 0
    /\ last_ping_avg = None /\ last_ping_error = None
    /\ now = 0
    /\ idle = 0 /\ total = 0 /\ idle_delta = 0 /\ total_delta = 0
    /\ cpu_usage = Zero
    /\ temp_c = Zero
    /\ rx_bytes = 0 /\ tx_bytes = 0 /\ elapsed = 0
    /\ rx_delta = 0 /\ tx_delta = 0
    /\ rx_rate = Zero /\ tx_rate = Zero

NothingStored == [cpu |-> 0, net |-> 0, time |-> 0]
NothingShown == [log |-> None, frame |-> None]

NoHistory ==
    /\ n_ticks = 0 /\ n_log = 0 /\ n_render = 0 /\ n_ping = 0
    /\ sampled = {}
    /\ tick_ping = None
    /\ ping_how = "none"
    /\ last_probe = None
    /\ net_reset = FALSE
    /\ read_failed = FALSE
    /\ stored = NothingStored
    /\ shown = NothingShown

Init ==
    /\ pc = "start"
    /\ clock = 0
    /\ Unbound
    /\ emitted = None
    /\ exit_status = "running"
    /\ NoHistory
    /\ call = None

\* The process ends: its memory (LoopState and the locals of main) is gone,
\* and with it what is known of its stores and of the last status shown;
\* what it wrote and the clock stay.
ProcessExit(status, output) ==
    /\ pc' = "exited"
    /\ exit_status' = status
    /\ emitted' = output
    /\ prev_idle' = 0 /\ prev_total' = 0
    /\ prev_rx' = 0 /\ prev_tx' = 0
    /\ prev_time' = 0
    /\ next_ping_time' = 0
    /\ last_ping_avg' = None /\ last_ping_error' = None
    /\ now' = 0
    /\ idle' = 0 /\ total' = 0 /\ idle_delta' = 0 /\ total_delta' = 0
    /\ cpu_usage' = Zero
    /\ temp_c' = Zero
    /\ rx_bytes' = 0 /\ tx_bytes' = 0 /\ elapsed' = 0
    /\ rx_delta' = 0 /\ tx_delta' = 0
    /\ rx_rate' = Zero /\ tx_rate' = Zero
    /\ stored' = NothingStored
    /\ shown' = NothingShown
    /\ UNCHANGED <<clock, sinks, history>>

\* Mutant of Uncaught: the loop body catches the exception and goes on to
\* the next tick.
Swallowed(exc) ==
    /\ pc' = "sleep"
    /\ emitted' = None
    /\ UNCHANGED <<clock, loop_state, locals, exit_status, sinks, history, marks>>

\* Lines 226-228: only KeyboardInterrupt is caught, and only inside the try
\* statement. Any other exception, and an interrupt outside it, leaves
\* main(): the interpreter prints the traceback and exits with an error.
Uncaught(exc) == ProcessExit("error", <<"traceback", exc>>)

\* Line 138.
ClearTerminal ==
    /\ pc = "start"
    /\ pc' = "init_cpu"
    /\ emitted' = <<"clear">>
    /\ UNCHANGED <<clock, loop_state, locals, exit_status, sinks, history, marks, read_failed, call>>

\* Line 141.
InitCpuOf(reads) ==
    /\ pc = "init_cpu"
    /\ \E r \in reads : prev_idle' = r[1] /\ prev_total' = r[2]
    /\ pc' = "init_net"
    /\ emitted' = None
    /\ UNCHANGED <<clock, prev_rx, prev_tx, prev_time, next_ping_time, last_ping_avg,
                   last_ping_error, locals, exit_status, sinks, history, marks, read_failed, call>>

\* Line 142.
InitNetOf(reads) ==
    /\ pc = "init_net"
    /\ \E r \in reads : prev_rx' = r[1] /\ prev_tx' = r[2]
    /\ pc' = "init_time"
    /\ emitted' = None
    /\ UNCHANGED <<clock, prev_idle, prev_total, prev_time, next_ping_time, last_ping_avg,
                   last_ping_error, locals, exit_status, sinks, history, marks, read_failed, call>>

\* Lines 143-147.
InitTime ==
    /\ pc = "init_time"
    /\ prev_time' = clock
    /\ \E off \in PingDelays : next_ping_time' = clock + off
    /\ last_ping_avg' = None
    /\ last_ping_error' = None
    /\ pc' = "sleep"
    /\ emitted' = None
    /\ UNCHANGED <<clock, prev_idle, prev_total, prev_rx, prev_tx, locals, exit_status,
                   sinks, history, marks, read_failed, call>>

\* Line 151: time.sleep(1) returns a second later and the next tick starts.
TickStart ==
    /\ pc = "sleep"
    /\ clock' = clock + SleepSecs
    /\ pc' = "read_cpu"
    /\ emitted' = None
    /\ n_ticks' = n_ticks + 1
    /\ sampled' = {}
    /\ tick_ping' = None
    /\ UNCHANGED <<loop_state, locals, exit_status, sinks, n_ping, ping_how, last_probe,
                   net_reset, marks, read_failed, call>>

\* Lines 153-160.
ReadCpuOf(reads) ==
    /\ pc = "read_cpu"
    /\ \E r \in reads :
          LET id == r[1] - prev_idle
              td == r[2] - prev_total
              usage == CpuUsage(id, td)
          IN  IF usage = Fault
              THEN Uncaught("ZeroDivisionError")
              ELSE /\ now' = clock
                   /\ idle' = r[1]
                   /\ total' = r[2]
                   /\ idle_delta' = id
                   /\ total_delta' = td
                   /\ prev_idle' = r[1]
                   /\ prev_total' = r[2]
                   /\ cpu_usage' = usage
                   /\ pc' = "read_temp"
                   /\ emitted' = None
                   /\ sampled' = sampled \cup {"cpu"}
                   /\ stored' = [stored EXCEPT !.cpu = n_ticks]
                   /\ UNCHANGED <<clock, prev_rx, prev_tx, prev_time, next_ping_time,
                                  last_ping_avg, last_ping_error, temp_c, net_locals,
                                  exit_status, sinks, n_ticks, n_ping, tick_ping,
                                  ping_how, last_probe, net_reset, shown>>
    /\ UNCHANGED <<read_failed, call>>

\* Lines 163-164.
ReadTemp ==
    /\ pc = "read_temp"
    /\ \E m \in TempReads : temp_c' = get_cpu_temp(m)
    /\ pc' = "read_net"
    /\ emitted' = None
    /\ sampled' = sampled \cup {"temp"}
    /\ UNCHANGED <<clock, loop_state, now, cpu_locals, net_locals, exit_status, sinks,
                   n_ticks, n_ping, tick_ping, ping_how, last_probe, net_reset,
                   marks, read_failed, call>>

\* Lines 167-174.
ReadNetOf(reads) ==
    /\ pc = "read_net"
    /\ \E r \in reads :
          LET secs == now - prev_time
              rxd == ByteDelta(r[1], prev_rx)
              txd == ByteDelta(r[2], prev_tx)
              rxr == ByteRate(rxd, secs)
              txr == ByteRate(txd, secs)
          IN  IF rxr = Fault \/ txr = Fault
              THEN Uncaught("ZeroDivisionError")
              ELSE /\ rx_bytes' = r[1]
                   /\ tx_bytes' = r[2]
                   /\ elapsed' = secs
                   /\ prev_time' = now
                   /\ rx_delta' = rxd
                   /\ tx_delta' = txd
                   /\ rx_rate' = rxr
                   /\ tx_rate' = txr
                   /\ prev_rx' = r[1]
                   /\ prev_tx' = r[2]
                   /\ pc' = "maybe_ping"
                   /\ emitted' = None
                   /\ sampled' = sampled \cup {"net"}
                   /\ net_reset' = (r[1] < prev_rx \/ r[2] < prev_tx)
                   /\ stored' = [stored EXCEPT !.net = n_ticks, !.time = n_ticks]
                   /\ UNCHANGED <<clock, prev_idle, prev_total, next_ping_time,
                                  last_ping_avg, last_ping_error, now, cpu_locals, temp_c,
                                  exit_status, sinks, n_ticks, n_ping, tick_ping,
                                  ping_how, last_probe, shown>>
    /\ UNCHANGED <<read_failed, call>>

\* Mutant of PingDue: the probe is due at the deadline only, not after it.
PingDueExact == now = next_ping_time

\* Mutant of PingDue: the deadline itself is not yet due.
PingDueLate == now > next_ping_time

\* Line 177: the probe is due.
PingDue == now >= next_ping_time

\* Mutant of RunPing: a failed probe leaves the stored latency as it was.
RunPingKeepsLatency ==
    /\ pc = "maybe_ping"
    /\ PingDue
    /\ \E run \in PingRuns, off \in PingDelays :
          LET result == run_ping(run.inv)
          IN  /\ last_ping_avg' = (IF result[1] = None THEN last_ping_avg ELSE result[1])
              /\ last_ping_error' = result[2]
              /\ next_ping_time' = now + off
              /\ clock' = clock + run.secs
              /\ tick_ping' = Some(result)
              /\ ping_how' = PingEnd(run)
              /\ n_ping' = n_ping + 1
              /\ last_probe' = Some([tick |-> n_ticks, now |-> now])
              /\ pc' = "log"
              /\ emitted' = None
              /\ UNCHANGED <<prev_idle, prev_total, prev_rx, prev_tx, prev_time,
                             locals, exit_status, sinks, n_ticks, sampled,
                             net_reset, marks>>
    /\ UNCHANGED <<read_failed, call>>

\* Lines 177-179, the probe is due: run it, store its outcome, reschedule
\* from the sample timestamp.
RunPing ==
    /\ pc = "maybe_ping"
    /\ PingDue
    /\ \E run \in PingRuns, off \in PingDelays :
          LET result == run_ping(run.inv)
          IN  IF IsRaised(result)
              THEN Uncaught(result[3])
              ELSE /\ last_ping_avg' = result[1]
                   /\ last_ping_error' = result[2]
                   /\ next_ping_time' = now + off
                   /\ clock' = clock + run.secs
                   /\ tick_ping' = Some(result)
                   /\ ping_how' = PingEnd(run)
                   /\ n_ping' = n_ping + 1
                   /\ last_probe' = Some([tick |-> n_ticks, now |-> now])
                   /\ pc' = "log"
                   /\ emitted' = None
                   /\ UNCHANGED <<prev_idle, prev_total, prev_rx, prev_tx, prev_time,
                                  locals, exit_status, sinks, n_ticks, sampled,
                                  net_reset, marks>>
    /\ UNCHANGED <<read_failed, call>>

\* Mutant of SkipPing: a tick without a probe resets the stored outcome.
SkipPingForgets ==
    /\ pc = "maybe_ping"
    /\ ~PingDue
    /\ last_ping_avg' = None
    /\ last_ping_error' = None
    /\ pc' = "log"
    /\ emitted' = None
    /\ UNCHANGED <<clock, prev_idle, prev_total, prev_rx, prev_tx, prev_time,
                   next_ping_time, locals, exit_status, sinks, history, marks,
                   read_failed, call>>

\* Line 177, the probe is not due.
SkipPing ==
    /\ pc = "maybe_ping"
    /\ ~PingDue
    /\ pc' = "log"
    /\ emitted' = None
    /\ UNCHANGED <<clock, loop_state, locals, exit_status, sinks, history, marks, read_failed, call>>

\* Mutant of Log: a line is written only on the ticks that ran the probe.
LogOnlyProbeTicks ==
    /\ pc = "log"
    /\ IF tick_ping # None
       THEN /\ emitted' = <<"log", LogLine>>
            /\ n_log' = n_log + 1
            /\ shown' = [shown EXCEPT !.log = LogLine.ping]
       ELSE emitted' = None /\ n_log' = n_log /\ shown' = shown
    /\ pc' = "render"
    /\ UNCHANGED <<clock, loop_state, locals, exit_status, n_render, history, stored,
                   read_failed, call>>

\* Lines 182-193.
Log ==
    /\ pc = "log"
    /\ emitted' = <<"log", LogLine>>
    /\ n_log' = n_log + 1
    /\ shown' = [shown EXCEPT !.log = LogLine.ping]
    /\ pc' = "render"
    /\ UNCHANGED <<clock, loop_state, locals, exit_status, n_render, history, stored,
                   read_failed, call>>

\* Lines 196-224.
Render ==
    /\ pc = "render"
    /\ emitted' = <<"frame", Frame>>
    /\ n_render' = n_render + 1
    /\ shown' = [shown EXCEPT !.frame = Frame.ping]
    /\ pc' = "sleep"
    /\ UNCHANGED <<clock, loop_state, locals, exit_status, n_log, history, stored,
                   read_failed, call>>

\* A metric source is unreadable or malformed: the reader raises OSError,
\* ValueError or IndexError.
ReadFail ==
    /\ pc \in {"init_cpu", "init_net"} \cup SamplePcs
    /\ read_failed' = TRUE
    /\ Uncaught("reader")
    /\ UNCHANGED call

\* Mutant of InterruptLoop: the interrupt is handled inside the loop body,
\* which goes on with the next tick.
InterruptIgnored ==
    /\ pc \in LoopPcs
    /\ pc' = "sleep"
    /\ emitted' = <<"newline">>
    /\ UNCHANGED <<clock, loop_state, locals, exit_status, sinks, history, marks,
                   read_failed, call>>

\* KeyboardInterrupt inside the try statement (lines 149-228): the handler
\* prints a newline, main() returns and the interpreter exits with status 0.
\* While subprocess.run is waiting, the interrupt is no Exception, so the
\* handler of run_ping lets it pass and nothing is assigned.
InterruptLoop ==
    /\ pc \in LoopPcs
    /\ ProcessExit("success", <<"newline">>)
    /\ UNCHANGED <<read_failed, call>>

\* KeyboardInterrupt before the try statement is entered (lines 138-147).
InterruptInit ==
    /\ pc \in InitPcs
    /\ Uncaught("KeyboardInterrupt")
    /\ UNCHANGED <<read_failed, call>>

InitCpu == InitCpuOf(CpuReads)
InitNet == InitNetOf(NetReads)
ReadCpu == ReadCpuOf(CpuReads)
ReadNet == ReadNetOf(NetReads)
Sleep == clock < MaxTime /\ TickStart

Next ==
    \/ ClearTerminal
    \/ InitCpu
    \/ InitNet
    \/ InitTime
    \/ Sleep
    \/ ReadCpu
    \/ ReadTemp
    \/ ReadNet
    \/ RunPing
    \/ SkipPing
    \/ Log
    \/ Render
    \/ ReadFail
    \/ InterruptLoop
    \/ InterruptInit

Spec == Init /\ [][Next]_vars

-----------------------------------------------------------------------------
(* The derived metrics on their own.  The loop is entered with any stored    *)
(* snapshots and any stored timestamp, before or after the clock, so that    *)
(* every pair of consecutive snapshots and timestamps gets computed on,      *)
(* an elapsed time of zero or less included; no probe is due.                *)

CalcCpuReads == {r \in (0..CalcCpuTicks) \X (0..CalcCpuTicks) : r[1] <= r[2]}
CalcNetReads == (0..CalcNetBytes) \X (0..CalcNetBytes)

InitCalc ==
    /\ pc = "sleep"
    /\ clock = CalcMaxTime
    /\ \E r \in CalcCpuReads : prev_idle = r[1] /\ prev_total = r[2]
    /\ \E r \in CalcNetReads : prev_rx = r[1] /\ prev_tx = r[2]
    /\ prev_time \in 0..(CalcMaxTime + 2)
    /\ next_ping_time = clock + PingMaxDelay
    /\ last_ping_avg = None /\ last_ping_error = None
    /\ now = 0
    /\ idle = 0 /\ total = 0 /\ idle_delta = 0 /\ total_delta = 0
    /\ cpu_usage = Zero
    /\ temp_c = Zero
    /\ rx_bytes = 0 /\ tx_bytes = 0 /\ elapsed = 0
    /\ rx_delta = 0 /\ tx_delta = 0
    /\ rx_rate = Zero /\ tx_rate = Zero
    /\ emitted = None
    /\ exit_status = "running"
    /\ NoHistory
    /\ call = None

CalcSleep == n_ticks < CalcTicks /\ TickStart
CalcReadCpu == ReadCpuOf(CalcCpuReads)
CalcReadNet == ReadNetOf(CalcNetReads)

NextCalc ==
    \/ CalcSleep
    \/ CalcReadCpu
    \/ ReadTemp
    \/ CalcReadNet
    \/ SkipPing
    \/ Log
    \/ Render

SpecCalc == InitCalc /\ [][NextCalc]_vars

-----------------------------------------------------------------------------
(* The loop run for ever.  main() uses the clock only through differences  *)
(* (now - prev_time, now >= next_ping_time), so every sleep counts the     *)
(* time anew from the last sample timestamp; the locals of the tick before *)
(* are all assigned again before they are read, and are forgotten, as is   *)
(* the history of the ticks before.  No reader fails and no interrupt      *)
(* arrives; the counters read do not move.                                 *)

LiveCpuReads == {<<0, 1>>}
LiveNetReads == {<<0, 0>>}

LiveInitCpu == InitCpuOf(LiveCpuReads)
LiveInitNet == InitNetOf(LiveNetReads)
LiveReadCpu == ReadCpuOf(LiveCpuReads)
LiveReadNet == ReadNetOf(LiveNetReads)

\* Line 151, the time counted from prev_time.
LiveSleep ==
    /\ pc = "sleep"
    /\ clock' = clock - prev_time + SleepSecs
    /\ prev_time' = 0
    /\ next_ping_time' = next_ping_time - prev_time
    /\ now' = 0
    /\ idle' = 0 /\ total' = 0 /\ idle_delta' = 0 /\ total_delta' = 0
    /\ cpu_usage' = Zero
    /\ temp_c' = Zero
    /\ rx_bytes' = 0 /\ tx_bytes' = 0 /\ elapsed' = 0
    /\ rx_delta' = 0 /\ tx_delta' = 0
    /\ rx_rate' = Zero /\ tx_rate' = Zero
    /\ pc' = "read_cpu"
    /\ emitted' = None
    /\ n_ticks' = 1 /\ n_log' = 0 /\ n_render' = 0 /\ n_ping' = 0
    /\ sampled' = {}
    /\ tick_ping' = None
    /\ ping_how' = "none"
    /\ last_probe' = None
    /\ net_reset' = FALSE
    /\ stored' = NothingStored
    /\ UNCHANGED <<prev_idle, prev_total, prev_rx, prev_tx, last_ping_avg,
                   last_ping_error, exit_status, shown, read_failed, call>>

NextLive ==
    \/ ClearTerminal
    \/ LiveInitCpu
    \/ LiveInitNet
    \/ InitTime
    \/ LiveSleep
    \/ LiveReadCpu
    \/ ReadTemp
    \/ LiveReadNet
    \/ RunPing
    \/ SkipPing
    \/ Log
    \/ Render

\* The one thread of control always takes its next step: the sleep returns,
\* the reads return, and subprocess.run returns within its timeout.
SpecLive == Init /\ [][NextLive]_vars /\ WF_vars(NextLive)

-----------------------------------------------------------------------------
(* The functions on their own: each is called once on an argument drawn    *)
(* from a set that covers its branches.                                     *)

\* result.stdout.  A line is a marker or none followed by one of the shapes
\* the parse of the statistics line tells apart.  The texts are every such
\* line, with and without its line break, and the texts of up to MaxLines
\* lines that are empty, unparsable or a full summary.
LinePrefixes == {<<>>, <<"rtt", " ">>, <<"round-trip", " ">>}
LineTails ==
    {<<>>,
     <<"=", " ">>,
     <<"=", " ", "10.1", "/", "12.5", "/", "15.0", "/", "1.2", " ", "ms">>,
     <<"=", "10.1", "/", "avg">>,
     <<"=", "10.1", "/">>,
     <<"=", "10.1", " ", "/", "12.5">>,
     <<"=", "avg", "=", "10.1", "/", "12.5">>,
     <<"=", "/", "12.5">>,
     <<"=", "10.1", "/", "12.5", "15.0">>}
StdoutLines == {p \o t : p \in LinePrefixes, t \in LineTails}
TextLines ==
    {p \o t : p \in LinePrefixes,
              t \in {<<>>, <<"=", "10.1", "/", "avg">>,
                     <<"=", " ", "10.1", "/", "12.5", "/", "15.0", "/", "1.2", " ", "ms">>}}

RECURSIVE StdoutsOf(_)
StdoutsOf(n) ==
    IF n = 0 THEN {<<>>}
    ELSE {l \o <<"\n">> \o r : l \in TextLines, r \in StdoutsOf(n - 1)}

Stdouts ==
    StdoutLines \cup {l \o <<"\n">> : l \in StdoutLines}
        \cup UNION {StdoutsOf(n) : n \in 0..MaxLines}
Stderrs == {<<>>, <<" ", "\n">>, <<" ", "Network unreachable", " ", "\n">>}
ExitCodes == {0, 1, 2}

RunPingCalls ==
    {[fn |-> "run_ping", args |-> Invocation("exit", <<>>, rc, e, o), ret |-> None] :
        rc \in ExitCodes, e \in Stderrs, o \in Stdouts}

\* Byte rates m * 1024^e: below, at and above each unit's threshold, the
\* values 500, 1536 and 2048, and a negative one; beyond 1024^4 only the
\* mantissas below 3 are taken (the hundredths of the others pass 2^31).
Mantissas ==
    {<<-1, 1>>, <<0, 1>>, <<1, 2>>, <<1, 1>>, <<3, 2>>, <<2, 1>>, <<500, 1>>,
     <<1023, 1>>, <<2047, 2>>, <<102399, 100>>}
Rates ==
    {<<q[1][1], q[1][2], q[2]>> :
        q \in {p \in Mantissas \X (0..MaxExp) : p[2] <= 4 \/ FracLess(p[1], 3)}}
FormatCalls == {[fn |-> "format_bytes_per_sec", args |-> r, ret |-> None] : r \in Rates}

\* CPU usage: not clamped, so below 0 and above 100 as well.
Usages == {Frac(k, 10) : k \in (-10 * MaxUsage)..(10 * MaxUsage)}
ColorCalls == {[fn |-> "color_for_cpu", args |-> u, ret |-> None] : u \in Usages}

\* Stored outcomes (last_ping_avg, last_ping_error), the latency 0.0, the
\* empty reason and the pairs no probe returns included, for the two
\* status branches of main().
Outcomes ==
    {None, Some(0), Some(125)} \X {None, Some(<<>>), Some(<<"invalid ping average">>)}
StatusCalls == {[fn |-> "status", args |-> o, ret |-> None] : o \in Outcomes}

FnCalls == RunPingCalls \cup FormatCalls \cup ColorCalls \cup StatusCalls

InitFn ==
    /\ pc = "function"
    /\ clock = 0
    /\ Unbound
    /\ emitted = None
    /\ exit_status = "running"
    /\ NoHistory
    /\ call \in FnCalls

\* The function returns.
Return(fn, value) ==
    /\ call # None /\ call.fn = fn /\ call.ret = None
    /\ call' = [call EXCEPT !.ret = Some(value)]
    /\ UNCHANGED <<pc, clock, loop_state, locals, emitted, exit_status, sinks, history,
                   read_failed, marks>>

CallRunPing == Return("run_ping", run_ping(call.args))
CallFormat == Return("format_bytes_per_sec", format_bytes_per_sec(call.args))
CallColor == Return("color_for_cpu", color_for_cpu(call.args))
CallStatus ==
    Return("status", [log |-> PingLogPart(call.args[1], call.args[2]),
                      display |-> PingDisplay(call.args[1], call.args[2])])

NextFn ==
    \/ CallRunPing
    \/ CallFormat
    \/ CallColor
    \/ CallStatus

SpecFn == InitFn /\ [][NextFn]_vars

-----------------------------------------------------------------------------
(* Properties *)

IsLog == emitted # None /\ emitted[1] = "log"
IsFrame == emitted # None /\ emitted[1] = "frame"
InTick == SamplePcs \cup {"maybe_ping", "log"}

\* C1: a probe failure is never fatal. However the ping invocation ends,
\* run_ping returns a latency or an error reason and no exception leaves
\* it; the tick that ran it goes on to the log line and the frame and then
\* to the sleep of the next tick, and ends early only by an interrupt.
C1_ProbeFailureNeverFatal ==
    /\ emitted \notin {<<"traceback", "IndexError">>, <<"traceback", "ValueError">>}
    /\ tick_ping # None =>
          /\ ~IsRaised(Val(tick_ping))
          /\ (Val(tick_ping)[1] = None) # (Val(tick_ping)[2] = None)
          /\ ping_how \in {"launch", "timeout", "nonzero", "zero"}
          /\ exit_status # "error"
          /\ pc \in {"log", "render", "sleep", "exited"}
          /\ (pc = "render" => n_log = n_ticks)
          /\ (pc = "sleep" => n_log = n_ticks /\ n_render = n_ticks)

\* A tick that ran a probe whose output did not parse is complete.
C1_Witness ==
    /\ pc = "sleep"
    /\ tick_ping = Some(<<None, Some(<<"invalid ping average">>)>>)
    /\ ping_how = "zero"
    /\ n_log = n_ticks /\ n_render = n_ticks

\* C2: the status rendered and logged is the pending one exactly as long as
\* no probe has completed, and once a probe has failed it is the error one
\* with the reason, whatever the reason text.
C2_PendingOnlyBeforeFirstProbe ==
    /\ IsFrame =>
          /\ (emitted[2].ping = <<"Pending...">>) <=> (n_ping = 0)
          /\ last_ping_error # None =>
                emitted[2].ping = <<"ERROR - ">> \o Val(last_ping_error)
    /\ IsLog =>
          /\ (emitted[2].ping = <<"Ping: pending">>) <=> (n_ping = 0)
          /\ last_ping_error # None =>
                emitted[2].ping = <<"Ping error: ">> \o Val(last_ping_error)

\* C3: an interrupt, in whatever state it arrives, ends the process with
\* the trailing newline and the success status.
C3_InterruptAlwaysGraceful ==
    (pc = "exited" /\ emitted \in {<<"newline">>, <<"traceback", "KeyboardInterrupt">>})
        => (emitted = <<"newline">> /\ exit_status = "success")

\* C4: the probe runs in a tick exactly when the tick's timestamp has
\* reached the deadline; the first deadline is the start time plus 10 to 40
\* seconds; a probe run stores its outcome and moves the deadline to the
\* tick's timestamp plus 10 to 40 seconds; so two successive probe ticks
\* are at least 10 seconds apart and none runs in the first 10 seconds
\* (the clock starts at 0).
C4_ProbeSchedule ==
    [][/\ (pc = "init_time" /\ pc' = "sleep") =>
             /\ prev_time' = clock
             /\ next_ping_time' - clock \in PingMinDelay..PingMaxDelay
       /\ (pc = "maybe_ping" /\ pc' = "log") =>
             /\ n_ping' \in {n_ping, n_ping + 1}
             /\ (n_ping' = n_ping + 1) <=> (now >= next_ping_time)
       /\ (n_ping' # n_ping) =>
             /\ pc = "maybe_ping" /\ pc' = "log"
             /\ tick_ping' # None
             /\ <<last_ping_avg', last_ping_error'>> = Val(tick_ping')
             /\ next_ping_time' - now \in PingMinDelay..PingMaxDelay
             /\ now >= PingMinDelay
             /\ last_probe # None => now - Val(last_probe).now >= PingMinDelay
      ]_vars

\* The second probe has run.
C4_Witness == n_ping = 2 /\ pc = "log" /\ tick_ping # None

\* C5, as claimed: the probe never runs on two consecutive ticks.
C5_NeverOnConsecutiveTicks ==
    [][(n_ping' = n_ping + 1) =>
           (last_probe = None \/ n_ticks > Val(last_probe).tick + 1)]_vars

\* C5, amended: the tick after a probe tick does not run the probe when its
\* timestamp is less than 10 seconds after the probe tick's, that is when
\* the probe and the sleep after it took less than 10 seconds together.
C5_NotWithinMinDelay ==
    [][(/\ pc = "maybe_ping" /\ pc' = "log"
        /\ last_probe # None
        /\ n_ticks = Val(last_probe).tick + 1
        /\ now - Val(last_probe).now < PingMinDelay) => n_ping' = n_ping]_vars

\* The tick after a probe tick has passed the probe without running it.
C5_Witness ==
    /\ pc = "log"
    /\ tick_ping = None
    /\ last_probe # None
    /\ n_ticks = Val(last_probe).tick + 1
    /\ now - Val(last_probe).now < PingMinDelay

\* C6: a failed metric read inside a tick ends the process with an error;
\* that tick has no log line, no frame and no probe, and every line and
\* frame written shows metrics that were all read in its own tick.
C6_ReadFailureFatal ==
    /\ read_failed =>
          /\ pc = "exited"
          /\ exit_status = "error"
          /\ emitted = <<"traceback", "reader">>
          /\ n_log = IF n_ticks > 0 THEN n_ticks - 1 ELSE 0
          /\ n_render = n_log
          /\ tick_ping = None
    /\ (IsLog \/ IsFrame) => sampled = Metrics

\* A read failed in a tick after some complete ticks, part of the metrics
\* of the failing tick having been read.
C6_Witness == read_failed /\ n_ticks > 1 /\ sampled = {"cpu", "temp"}

\* C7: no arithmetic fault: a total-tick delta of 0 gives a usage of
\* exactly 0, an elapsed time of 0 or less gives RX and TX rates of 0.
C7_NoArithmeticFault ==
    /\ emitted # <<"traceback", "ZeroDivisionError">>
    /\ total_delta = 0 => cpu_usage = Zero
    /\ elapsed <= 0 => (rx_rate = Zero /\ tx_rate = Zero)

\* A tick with no total ticks passed although idle ticks moved, and with no
\* time passed although bytes arrived.
C7_Witness ==
    /\ pc = "maybe_ping"
    /\ total_delta = 0 /\ idle_delta # 0 /\ cpu_usage = Zero
    /\ elapsed <= 0 /\ rx_delta > 0 /\ tx_delta > 0
    /\ rx_rate = Zero /\ tx_rate = Zero

\* C8: each direction's delta is max(cur - prev, 0), on its own; the rates
\* computed, logged and displayed are never negative; the snapshot read
\* becomes the stored one, also when it is the lower one.
C8_ClampedDeltas ==
    [][/\ (pc = "read_net" /\ pc' = "maybe_ping") =>
             /\ rx_delta' = (IF rx_bytes' > prev_rx THEN rx_bytes' - prev_rx ELSE 0)
             /\ tx_delta' = (IF tx_bytes' > prev_tx THEN tx_bytes' - prev_tx ELSE 0)
             /\ prev_rx' = rx_bytes' /\ prev_tx' = tx_bytes'
             /\ elapsed' > 0 =>
                   /\ rx_rate'[1] * elapsed' = rx_delta' * rx_rate'[2]
                   /\ tx_rate'[1] * elapsed' = tx_delta' * tx_rate'[2]
       /\ rx_rate'[1] >= 0 /\ rx_rate'[2] > 0
       /\ tx_rate'[1] >= 0 /\ tx_rate'[2] > 0
       /\ (emitted' # None /\ emitted'[1] \in {"log", "frame"}) =>
             /\ emitted'[2].up.hundredths >= 0
             /\ emitted'[2].down.hundredths >= 0
      ]_vars

\* RX fell back while TX grew: the RX delta is clamped, the TX one is not.
C8_Witness ==
    /\ pc = "maybe_ping"
    /\ net_reset
    /\ rx_delta = 0 /\ rx_bytes = 0 /\ prev_rx = 0
    /\ tx_delta > 0 /\ tx_rate[1] > 0

\* C9: with a total-tick delta other than 0 the usage is
\* (1 - idle_delta/total_delta) * 100 of the deltas between the snapshot
\* read and the stored one, not clamped to [0, 100].
C9_UsageFormula ==
    [][(pc = "read_cpu" /\ pc' = "read_temp") =>
           LET td == total' - prev_total
               id == idle' - prev_idle
           IN  /\ total_delta' = td /\ idle_delta' = id
               /\ prev_total' = total' /\ prev_idle' = idle'
               /\ td # 0 =>
                     /\ cpu_usage'[2] > 0
                     /\ cpu_usage'[1] * td = (td - id) * 100 * cpu_usage'[2]
      ]_vars

\* A usage above 100: the idle ticks went down while the total went up.
C9_Witness ==
    /\ pc = "read_temp"
    /\ total_delta # 0
    /\ cpu_usage[1] > 100 * cpu_usage[2]

\* C10: every tick that completes has appended exactly one log line; in a
\* tick the metrics are sampled, then the probe runs if due, then the line
\* is logged, then the frame is rendered, so the line and the frame of a
\* tick that ran the probe show that probe's outcome.
C10_OneLogLinePerTick ==
    /\ pc \in LoopPcs =>
          /\ n_log = n_ticks - (IF pc \in InTick THEN 1 ELSE 0)
          /\ n_render = n_ticks - (IF pc \in InTick \cup {"render"} THEN 1 ELSE 0)
    /\ pc = "exited" =>
          /\ n_log \in {n_ticks - 1, n_ticks} \cap Nat
          /\ n_render \in {n_log - 1, n_log} \cap Nat
    /\ pc \in {"maybe_ping", "log", "render"} => sampled = Metrics
    /\ tick_ping # None => pc \in {"log", "render", "sleep", "exited"}
    /\ IsLog =>
          /\ pc = "render"
          /\ tick_ping # None =>
                emitted[2].ping = PingLogPart(Val(tick_ping)[1], Val(tick_ping)[2])
    /\ IsFrame =>
          /\ pc = "sleep"
          /\ tick_ping # None =>
                emitted[2].ping = PingDisplay(Val(tick_ping)[1], Val(tick_ping)[2])

\* A tick that ran the probe is complete, after other ticks.
C10_Witness ==
    /\ IsFrame
    /\ tick_ping # None
    /\ n_ticks > PingMinDelay
    /\ n_log = n_ticks /\ n_render = n_ticks

\* The outcome of an invocation that returned, told from its exit code, its
\* stderr and its stdout: unparsed and invalid are the reasons of the two
\* failures of a zero exit.  The statistics line is the line around the
\* first marker; the mean is the number right after the first "/" of the
\* first word that follows the line's first "=".
OutcomeOf(inv, unparsed, invalid) ==
    LET err == inv.stderr
        out == inv.stdout
        ink == {i \in 1..Len(err) : ~IsSpace(err[i])}
        first(S) == CHOOSE i \in S : \A j \in S : i <= j
        last(S) == CHOOSE i \in S : \A j \in S : i >= j
        stripped == IF ink = {} THEN <<>> ELSE SubSeq(err, first(ink), last(ink))
        markers == {i \in 1..Len(out) : out[i] \in {"rtt", "round-trip"}}
        m == first(markers)
        from == last({0} \cup {i \in 1..m : out[i] = "\n"}) + 1
        to == first({Len(out) + 1} \cup {i \in m..Len(out) : out[i] = "\n"}) - 1
        l == SubSeq(out, from, to)
        n == Len(l)
        means ==
            {l[s + 1] : s \in {t \in 1..(n - 1) :
                \E e \in 1..n, a \in 1..n :
                    /\ l[e] = "=" /\ \A k \in 1..(e - 1) : l[k] # "="
                    /\ e < a /\ \A k \in (e + 1)..(a - 1) : IsSpace(l[k])
                    /\ l[a] \notin {" ", "="}
                    /\ a <= t /\ \A k \in a..(t - 1) : l[k] \notin {" ", "=", "/"}
                    /\ l[t] = "/"
                    /\ l[t + 1] \in DOMAIN NumValue
                    /\ (t + 2 > n \/ l[t + 2] \in {"/", " ", "="})}}
    IN  IF inv.returncode # 0
        THEN <<None, Some(IF stripped # <<>> THEN stripped
                          ELSE <<"ping exited with ", ToString(inv.returncode)>>)>>
        ELSE IF markers = {} THEN <<None, Some(<<unparsed>>)>>
        ELSE IF means # {} THEN <<Some(NumValue[CHOOSE x \in means : TRUE]), None>>
        ELSE <<None, Some(<<invalid>>)>>

RunPingReturned == call # None /\ call.fn = "run_ping" /\ call.ret # None

RECURSIVE AtLeastPow1024(_, _)
AtLeastPow1024(m, p) ==
    IF p = 0 THEN m[1] >= m[2]
    ELSE IF p > 0
    THEN m[1] >= 1024 * m[2] /\ AtLeastPow1024(Frac(m[1], m[2] * 1024), p - 1)
    ELSE m[1] >= m[2] \/ AtLeastPow1024(Frac(m[1] * 1024, m[2]), p + 1)

FormatReturned == call # None /\ call.fn = "format_bytes_per_sec" /\ call.ret # None

\* C12: format_bytes_per_sec returns a string for every input; its unit is
\* the one numbered min(4, times the value can be divided by 1024 while it
\* is 1024 or more) of B/s, KB/s, MB/s, GB/s, TB/s, so 1024^4 and more stay
\* in TB/s; a negative input is formatted as 0; 500 gives 500.00 B/s, 2048
\* gives 2.00 KB/s and 1536 gives 1.50 KB/s.
C12_UnitByDivision ==
    FormatReturned =>
        LET v == call.args
            m == IF v[1] > 0 THEN Mantissa(v) ELSE Zero
            k == Cardinality({j \in 1..4 : AtLeastPow1024(m, j - v[3])})
            r == Val(call.ret)
        IN  /\ r # None
            /\ r.unit = <<"B/s", "KB/s", "MB/s", "GB/s", "TB/s">>[k + 1]
            /\ r.hundredths >= 0
            /\ (k < 4 => r.hundredths <= 102400)
            /\ (v[1] <= 0 => r.hundredths = 0 /\ r.unit = "B/s")
            /\ (v = <<500, 1, 0>> => r.hundredths = 50000 /\ r.unit = "B/s")
            /\ (v = <<2, 1, 1>> => r.hundredths = 200 /\ r.unit = "KB/s")
            /\ (v = <<3, 2, 1>> => r.hundredths = 150 /\ r.unit = "KB/s")

\* 1024^5 bytes per second are 1024.00 TB/s.
C12_Witness ==
    /\ FormatReturned
    /\ call.args = <<1, 1, 5>>
    /\ Val(call.ret) # None
    /\ Val(call.ret).unit = "TB/s" /\ Val(call.ret).hundredths = 102400

ColorReturned == call # None /\ call.fn = "color_for_cpu" /\ call.ret # None

\* C13: color_for_cpu gives purple from 90 on, red from 70 to below 90,
\* orange from 50 to below 70, yellow from 30 to below 50 and the neutral
\* color below 30, negative usage included; the band never goes down as
\* the usage goes up.
C13_CpuBands ==
    ColorReturned =>
        LET n == call.args[1]
            d == call.args[2]
            c == Val(call.ret)
            band(x) == CASE x = "RESET" -> 0 [] x = "YELLOW" -> 1 [] x = "ORANGE" -> 2
                         [] x = "RED" -> 3 [] x = "PURPLE" -> 4
            below == Frac(10 * n - d, 10 * d)
        IN  /\ c \in {"RESET", "YELLOW", "ORANGE", "RED", "PURPLE"}
            /\ (c = "PURPLE") <=> (n >= 90 * d)
            /\ (c = "RED") <=> (n >= 70 * d /\ n < 90 * d)
            /\ (c = "ORANGE") <=> (n >= 50 * d /\ n < 70 * d)
            /\ (c = "YELLOW") <=> (n >= 30 * d /\ n < 50 * d)
            /\ (c = "RESET") <=> (n < 30 * d)
            /\ band(color_for_cpu(below)) <= band(c)

\* A usage of exactly 30 is in the yellow band.
C13_Witness == ColorReturned /\ call.args = <<30, 1>> /\ Val(call.ret) = "YELLOW"

\* C14: when a tick starts, the stored CPU snapshot, network snapshot and
\* timestamp were all stored in the tick just completed, in which every
\* metric was read, or in initialization for the first tick, and they are
\* the values that tick read; a tick in which only some of them were
\* replaced does not go on to another tick, and nothing follows the exit.
C14_SingleSlotHistory ==
    [][/\ (n_ticks' = n_ticks + 1) =>
             /\ stored = [cpu |-> n_ticks, net |-> n_ticks, time |-> n_ticks]
             /\ sampled = (IF n_ticks = 0 THEN {} ELSE Metrics)
             /\ n_ticks > 0 =>
                   /\ prev_idle = idle /\ prev_total = total
                   /\ prev_rx = rx_bytes /\ prev_tx = tx_bytes
                   /\ prev_time = now
       /\ (stored.cpu # stored.net \/ stored.cpu # stored.time) =>
             /\ n_ticks' = n_ticks
             /\ (pc' = "exited" \/ (pc = "read_temp" /\ pc' = "read_net")
                    \/ (pc = "read_net" /\ pc' = "maybe_ping"))
       /\ pc = "exited" => (pc' = "exited" /\ n_ticks' = n_ticks)
      ]_vars

\* An interrupt has ended a tick, after other ticks, in which the CPU
\* snapshot had been replaced and the network snapshot had not.
C14_Witness ==
    /\ pc = "exited" /\ exit_status = "success"
    /\ n_ticks > 1
    /\ sampled = {"cpu", "temp"}

\* C15: with no interrupt and no read failure the loop never stops: the
\* process never exits, every tick that starts reaches its end and every
\* end of a tick is followed by the start of another; the probe runs again
\* and again, in exactly the ticks whose timestamp has reached the
\* deadline, and as the deadline is ahead of the timestamp whenever a tick
\* has ended, such a tick is the first one to have reached it.
C15_LoopNeverStops ==
    /\ [](pc # "exited" /\ exit_status = "running")
    /\ []<>(pc = "read_cpu")
    /\ ((pc = "read_cpu") ~> (pc = "sleep" /\ n_log = 1 /\ n_render = 1))
    /\ ((pc = "sleep") ~> (pc = "read_cpu"))
    /\ []<>(pc = "log" /\ tick_ping # None)
    /\ [](pc = "sleep" => prev_time < next_ping_time)
    /\ [][(pc = "maybe_ping") =>
             ((tick_ping' # None) <=> (now >= next_ping_time))]_vars

\* A probe has run in a tick that was not the first one after the start.
C15_Witness ==
    /\ pc = "log" /\ tick_ping # None
    /\ shown.log = <<"Ping error: ", "invalid ping average">>

\* C16: a tick whose timestamp has not reached the deadline leaves the
\* stored outcome and the deadline as they are, and the probe status of
\* its log line and of its frame is that of the tick before; the stored
\* outcome changes only when a due tick runs the probe (and when the
\* process ends).
C16_StatusKeptBetweenProbes ==
    [][/\ (pc = "maybe_ping" /\ now < next_ping_time /\ pc' # "exited") =>
             /\ pc' = "log" /\ tick_ping' = None
             /\ UNCHANGED <<last_ping_avg, last_ping_error, next_ping_time>>
       /\ (<<last_ping_avg, last_ping_error>>' # <<last_ping_avg, last_ping_error>>) =>
             \/ pc' = "exited"
             \/ pc = "maybe_ping" /\ now >= next_ping_time /\ tick_ping' # None
       /\ (pc = "log" /\ pc' = "render" /\ tick_ping = None /\ n_ticks > 1) =>
             /\ emitted'[1] = "log"
             /\ emitted'[2].ping = shown.log
       /\ (pc = "render" /\ pc' = "sleep" /\ tick_ping = None /\ n_ticks > 1) =>
             /\ emitted'[1] = "frame"
             /\ emitted'[2].ping = shown.frame
      ]_vars

\* The tick after a failed probe has logged that probe's error again.
C16_Witness ==
    /\ pc = "render" /\ IsLog
    /\ tick_ping = None
    /\ n_ping = 1
    /\ last_probe # None /\ n_ticks = Val(last_probe).tick + 1
    /\ emitted[2].ping = <<"Ping error: ", "ping exited with ", "2">>

\* C17: the stored outcome never holds a latency and an error together;
\* it holds neither until the first probe has run; and after a probe it is
\* the pair that probe returned, with nothing left of the outcome before.
C17_OneOutcome ==
    /\ ~(last_ping_avg # None /\ last_ping_error # None)
    /\ (n_ping = 0 => last_ping_avg = None /\ last_ping_error = None)
    /\ (tick_ping # None /\ pc \in {"log", "render", "sleep"}) =>
          /\ last_ping_avg = Val(tick_ping)[1]
          /\ last_ping_error = Val(tick_ping)[2]

\* A probe has failed after one that succeeded: the latency is gone.
C17_Witness ==
    /\ pc = "log"
    /\ n_ping = 2
    /\ shown.log = <<"Ping avg: ", "125", " ms">>
    /\ tick_ping # None /\ Val(tick_ping)[1] = None
    /\ last_ping_avg = None /\ last_ping_error # None

StatusReturned == call # None /\ call.fn = "status" /\ call.ret # None

\* C18: for every stored outcome the log line and the display take the
\* same branch: both show the error, with the same reason, or both show
\* the latency, with the same value, or both show pending.
C18_SameStatusClass ==
    StatusReturned =>
        LET l == Val(call.ret).log
            d == Val(call.ret).display
            logClass == IF l = <<"Ping: pending">> THEN "pending"
                        ELSE IF l[1] = "Ping error: " THEN "error"
                        ELSE IF l[1] = "Ping avg: " THEN "latency" ELSE "none"
            displayClass == IF d = <<"Pending...">> THEN "pending"
                            ELSE IF d[1] = "ERROR - " THEN "error"
                            ELSE IF d[Len(d)] = " ms" THEN "latency" ELSE "none"
        IN  /\ logClass = displayClass
            /\ logClass # "none"
            /\ logClass = "error" => Tail(l) = Tail(d)
            /\ logClass = "latency" => l[2] = d[1]

\* A latency of 0.0 is shown as a latency by both.
C18_Witness ==
    /\ StatusReturned
    /\ call.args = <<Some(0), None>>
    /\ Val(call.ret) = [log |-> <<"Ping avg: ", "0", " ms">>, display |-> <<"0", " ms">>]
====
